---- MODULE Spec2Model ----
(***************************************************************************)
(* Model of the Telegram AI relay bot (bot.py, ai_handler.py, config.py).  *)
(*                                                                         *)
(* Every handler invocation and every media-group flush is a coroutine on  *)
(* one asyncio event loop.  An action is the code a coroutine runs between *)
(* two awaits.  ask_ai is called without await (bot.py:107), so while it   *)
(* runs the coroutine owns the loop (variable loop) and nothing else runs. *)
(* Time is counted in ticks of 0.75 s and kept relative: a timer holds the  *)
(* ticks left until it is due, a media group the ticks since its last      *)
(* photo arrived.  The clock advances independently of the loop.           *)
(***************************************************************************)
EXTENDS Integers, Sequences, FiniteSets, TLC

\* ---- bounds ------------------------------------------------------------
NumUsers == 2
MaxUpdates == 2
MaxMaxHistory == 1
MaxLen == 4
MaxSize == 4
MaxStr == 3
MaxAppends == 5
MaxTurns == 2
MaxParts == 2
MaxAlbumPhotos == 3
MaxReply == 6

\* ---- small helpers -----------------------------------------------------
Min(a, b) == IF a < b THEN a ELSE b
Max(a, b) == IF a > b THEN a ELSE b
Last(s) == s[Len(s)]
Front(s) == SubSeq(s, 1, Len(s) - 1)

RECURSIVE Flatten(_)
Flatten(ss) == IF ss = <<>> THEN <<>> ELSE Head(ss) \o Flatten(Tail(ss))

\* sequences over alphabet A of length at most n
StringsUpTo(A, n) == UNION {[1..k -> A] : k \in 0..n}

\* ---- input domains -----------------------------------------------------
Users == 1..NumUsers
Groups == {"g1"}
Whitespace == {" ", "\n"}
KnownProviders == {"openrouter", "openai", "gemini", "anthropic"}
Providers == KnownProviders \cup {"bogus"}
Texts == {<<"h">>, <<" ">>}
Captions == {<<>>, <<"c">>}
Documents == {[mime |-> "image/png", pdf_name |-> FALSE],
              [mime |-> "application/pdf", pdf_name |-> TRUE],
              [mime |-> "", pdf_name |-> TRUE],
              [mime |-> "text/plain", pdf_name |-> FALSE]}
NoDocument == [mime |-> "", pdf_name |-> FALSE]
ImageMimes == {"image/png"}
PdfTexts == {<<"t">>}
RawReplies == {<<"r", "\n", "\n", "\n", "s", "\n">>}
DefaultPhotoPrompt == <<"P">>
DefaultGroupPrompt == <<"G">>

\* ---- python str.strip() ------------------------------------------------
RECURSIVE lstrip(_)
lstrip(s) == IF s /= <<>> /\ Head(s) \in Whitespace THEN lstrip(Tail(s)) ELSE s

RECURSIVE rstrip(_)
rstrip(s) == IF s /= <<>> /\ Last(s) \in Whitespace THEN rstrip(Front(s)) ELSE s

strip_lonly(s) == lstrip(s)
strip(s) == rstrip(lstrip(s))

\* ---- bot.py: _strip_markdown -------------------------------------------
\* Replies are built from letters, spaces and newlines; they hold none of
\* # * _ ` - > [ ] ( ) !, so the substitutions of bot.py:57-70 match nothing
\* and only the blank-line collapse and the final strip change the text.
\* re.sub(r'\n{3,}', '\n\n', text): of every run of newlines the first two stay
KeptIndex(s, i) == ~(i >= 3 /\ s[i] = "\n" /\ s[i - 1] = "\n" /\ s[i - 2] = "\n")

CollapseNewlines(s) ==
  LET kept == SelectSeq([i \in 1..Len(s) |-> i], LAMBDA i : KeptIndex(s, i))
  IN [j \in 1..Len(kept) |-> s[kept[j]]]

_strip_markdown(text) == strip(CollapseNewlines(text))

\* ---- ai_handler.py: parts and turns --------------------------------------
make_text_part(text) == [type |-> "text", text |-> text, data |-> 0, mime |-> ""]
make_pdf_part(text) == [type |-> "pdf_text", text |-> text, data |-> 0, mime |-> ""]
encode_image_bytes(data, mime) == [type |-> "image_b64", text |-> <<>>, data |-> data, mime |-> mime]

\* content is str | list[part]
PlainText(s) == [plain |-> TRUE, text |-> s, parts |-> <<>>]
PartList(ps) == [plain |-> FALSE, text |-> <<>>, parts |-> ps]

\* a history item; "by" records the coroutine that appended it
Turn(role, content, t) == [role |-> role, content |-> content, by |-> t]

\* ---- state ---------------------------------------------------------------
VARIABLES
  phase,               \* "boot" | "running" | "failed" (main), or a harness tag
  TELEGRAM_BOT_TOKEN, AI_PROVIDER, AI_API_KEY, MAX_HISTORY,   \* config.py
  concurrent_updates,  \* whether update handlers run as concurrent tasks
  user_history,        \* uid -> list of turns
  _media_groups,       \* media_group_id -> group record or NoGroup
  timers,              \* live call_later handles
  tasks,               \* coroutines, in creation order
  loop,                \* 0, or the task running the blocking ask_ai
  quiet,               \* per media_group_id: arrivals seen and ticks since the last
  dispatched,          \* turns handed to _send_ai_reply by _flush_media_group
  fx, fy               \* input / output of the function harnesses

vars == <<phase, TELEGRAM_BOT_TOKEN, AI_PROVIDER, AI_API_KEY, MAX_HISTORY,
          concurrent_updates, user_history, _media_groups, timers,
          tasks, loop, quiet, dispatched, fx, fy>>

config == <<TELEGRAM_BOT_TOKEN, AI_PROVIDER, AI_API_KEY, MAX_HISTORY, concurrent_updates>>
harness == <<fx, fy>>

NoGroup == [present |-> FALSE]
TelegramLimit == 4096
\* a message handed to reply_text
Message(kind, text) == [kind |-> kind, text |-> text]
\* "\u26a0\ufe0f AI error: " is 13 code points
ErrorPrefix == <<"warning-sign", "vs16", " ", "A", "I", " ", "e", "r", "r", "o", "r", ":", " ">>
ErrorTexts == {<<"e">>}
_MEDIA_GROUP_TIMEOUT == 2

\* ---- bot.py: _trim_history ---------------------------------------------
\* python slice hist[-n:]: -0 is 0, so n = 0 selects the whole list
NegSlice(hist, n) == IF n = 0 THEN hist
                     ELSE SubSeq(hist, Max(Len(hist) - n, 0) + 1, Len(hist))

trim_pairs(hist, max_history) ==
  LET max_items == max_history * 2
      excess == Len(hist) - max_items
      drop == IF excess % 2 = 0 THEN excess ELSE excess + 1
  IN IF Len(hist) > max_items THEN SubSeq(hist, Min(drop, Len(hist)) + 1, Len(hist)) ELSE hist

trim(hist, max_history) ==
  LET max_items == max_history * 2
  IN IF Len(hist) > max_items THEN NegSlice(hist, max_items) ELSE hist

_trim_history(h, uid) == [h EXCEPT ![uid] = trim(h[uid], MAX_HISTORY)]

\* bot.py:102-103 and 275-276: append a user turn, then trim
AppendUserTurn(h, uid, content, t) ==
  _trim_history([h EXCEPT ![uid] = Append(h[uid], Turn("user", content, t))], uid)

\* bot.py:115-116
AppendAssistantTurn(h, uid, reply, t) ==
  _trim_history([h EXCEPT ![uid] = Append(h[uid], Turn("assistant", PlainText(reply), t))], uid)

\* ---- bot.py: _split ------------------------------------------------------
Slice(text, a, b) == SubSeq(text, a + 1, Min(b, Len(text)))

RECURSIVE SplitFrom(_, _, _, _)
SplitFrom(text, i, stop, size) ==
  IF i >= stop THEN <<>>
  ELSE <<Slice(text, i, i + size)>> \o SplitFrom(text, i + size, stop, size)

split_nomax(text, size) == SplitFrom(text, 0, Len(text), size)
_split(text, size) == SplitFrom(text, 0, Max(Len(text), 1), size)

\* ---- bot.py: the messages _send_ai_reply sends ---------------------------
\* bot.py:118-121
ReplyMessages_raw(reply) ==
  LET chunks == _split(reply, TelegramLimit)
  IN [i \in 1..Len(chunks) |-> Message("reply", chunks[i])]
ReplyMessages(reply) ==
  LET chunks == _split(_strip_markdown(reply), TelegramLimit)
  IN [i \in 1..Len(chunks) |-> Message("reply", chunks[i])]

\* bot.py:110-112
ErrorMessages(exc) == <<Message("error", ErrorPrefix \o exc)>>

\* ---- ai_handler.py: serializers ------------------------------------------
PdfPrefix == <<"[PDF Content]", "\n">>

\* the if/elif chains have no else: a part of another type adds nothing
OpenAIPart(part) ==
  CASE part.type = "text" -> <<[type |-> "text", text |-> part.text]>>
    [] part.type = "image_b64" ->
         <<[type |-> "image_url",
            image_url |-> [url |-> <<"data:", part.mime, ";base64,", part.data>>]]>>
    [] part.type = "pdf_text" -> <<[type |-> "text", text |-> PdfPrefix \o part.text]>>
    [] OTHER -> <<>>

GeminiPart(part) ==
  CASE part.type = "text" -> <<[text |-> part.text]>>
    [] part.type = "image_b64" ->
         <<[inlineData |-> [mimeType |-> part.mime, data |-> part.data]]>>
    [] part.type = "pdf_text" -> <<[text |-> PdfPrefix \o part.text]>>
    [] OTHER -> <<>>

AnthropicPart(part) ==
  CASE part.type = "text" -> <<[type |-> "text", text |-> part.text]>>
    [] part.type = "image_b64" ->
         <<[type |-> "image",
            source |-> [type |-> "base64", media_type |-> part.mime, data |-> part.data]]>>
    [] part.type = "pdf_text" -> <<[type |-> "text", text |-> PdfPrefix \o part.text]>>
    [] OTHER -> <<>>

RECURSIVE OpenAIParts(_)
OpenAIParts(content) ==
  IF content = <<>> THEN <<>> ELSE OpenAIPart(Head(content)) \o OpenAIParts(Tail(content))

RECURSIVE GeminiParts(_)
GeminiParts(content) ==
  IF content = <<>> THEN <<>> ELSE GeminiPart(Head(content)) \o GeminiParts(Tail(content))

RECURSIVE AnthropicParts(_)
AnthropicParts(content) ==
  IF content = <<>> THEN <<>> ELSE AnthropicPart(Head(content)) \o AnthropicParts(Tail(content))

GeminiRole_passthrough(role) == role
GeminiRole(role) == IF role = "user" THEN "user" ELSE "model"

_build_openai_messages(history) ==
  [i \in 1..Len(history) |->
     [role |-> history[i].role,
      content |-> IF history[i].content.plain THEN history[i].content.text
                  ELSE OpenAIParts(history[i].content.parts)]]

_build_gemini_contents(history) ==
  [i \in 1..Len(history) |->
     [role |-> GeminiRole(history[i].role),
      parts |-> IF history[i].content.plain THEN <<[text |-> history[i].content.text]>>
                ELSE GeminiParts(history[i].content.parts)]]

_build_anthropic_messages(history) ==
  [i \in 1..Len(history) |->
     [role |-> history[i].role,
      content |-> IF history[i].content.plain THEN history[i].content.text
                  ELSE AnthropicParts(history[i].content.parts)]]

\* ---- ai_handler.py: reply extraction -------------------------------------
OpenAIReply(response) == strip(response.choices[1].message.content)
OpenRouterReply(response) == strip(response.choices[1].message.content)
GeminiReply(response) == strip(response.candidates[1].content.parts[1].text)
AnthropicReply(response) == strip(response.content[1].text)

ExtractReply(provider, response) ==
  CASE provider = "openrouter" -> OpenRouterReply(response)
    [] provider = "openai" -> OpenAIReply(response)
    [] provider = "gemini" -> GeminiReply(response)
    [] provider = "anthropic" -> AnthropicReply(response)

\* a provider response that carries text in the provider's reply field
ResponseWith(provider, text) ==
  CASE provider \in {"openrouter", "openai"} ->
         [choices |-> <<[message |-> [content |-> text]]>>]
    [] provider = "gemini" ->
         [candidates |-> <<[content |-> [parts |-> <<[text |-> text]>>]]>>]
    [] provider = "anthropic" ->
         [content |-> <<[text |-> text]>>]

\* ---- tasks ---------------------------------------------------------------
NewTask(kind, uid) ==
  [kind |-> kind, uid |-> uid, pc |-> "start", caption |-> <<>>, mgid |-> "",
   doc |-> NoDocument, pre |-> <<>>, result |-> "", out |-> <<>>]

TaskIds == 1..Len(tasks)
Finished(t) == tasks[t].pc \in {"done", "crashed"}
IsHandler(t) == tasks[t].kind /= "flush"
Updates == {t \in TaskIds : IsHandler(t)}

\* Application processes one update at a time unless concurrent_updates is set
MayDispatchUpTo(limit) ==
  /\ phase = "running"
  /\ loop = 0
  /\ Cardinality(Updates) < limit
  /\ concurrent_updates \/ \A t \in Updates : Finished(t)

MayDispatch == MayDispatchUpTo(MaxUpdates)

PutTask(t, task) == IF t > Len(tasks) THEN Append(tasks, task) ELSE [tasks EXCEPT ![t] = task]

\* entry of _send_ai_reply up to its first await (bot.py:102-105)
EnterSend(task, content, t) ==
  /\ user_history' = AppendUserTurn(user_history, task.uid, content, t)
  /\ tasks' = PutTask(t, [task EXCEPT !.pc = "typing", !.pre = user_history[task.uid]])

\* ---- Init / main ---------------------------------------------------------
Idle ==
  /\ user_history = [u \in Users |-> <<>>]
  /\ _media_groups = [g \in Groups |-> NoGroup]
  /\ timers = {}
  /\ tasks = <<>>
  /\ loop = 0
  /\ quiet = [g \in Groups |-> [n |-> 0, age |-> _MEDIA_GROUP_TIMEOUT, chained |-> TRUE]]
  /\ dispatched = <<>>

Init ==
  /\ phase = "boot"
  /\ TELEGRAM_BOT_TOKEN \in {"", "tok"}
  /\ AI_API_KEY \in {"", "key"}
  /\ AI_PROVIDER \in Providers
  /\ MAX_HISTORY \in 0..MaxMaxHistory
  /\ concurrent_updates = FALSE
  /\ Idle
  /\ fx = <<>> /\ fy = <<>>

main ==
  /\ phase = "boot"
  /\ phase' = IF TELEGRAM_BOT_TOKEN = "" \/ AI_API_KEY = "" THEN "failed" ELSE "running"
  /\ UNCHANGED <<config, user_history, _media_groups, timers, tasks,
                 loop, quiet, dispatched, harness>>

\* ---- handlers ------------------------------------------------------------
handle_text(uid, text) ==
  /\ MayDispatch
  /\ LET t == Len(tasks) + 1
         task == NewTask("text", uid)
     IN IF strip(text) = <<>>
        THEN /\ tasks' = Append(tasks, [task EXCEPT !.pc = "done"])
             /\ UNCHANGED user_history
        ELSE EnterSend(task, PlainText(strip(text)), t)
  /\ UNCHANGED <<phase, config, _media_groups, timers, loop, quiet, dispatched, harness>>

\* the typing indicator was sent; ask_ai starts and holds the loop (bot.py:105-107)
AskStart(t) ==
  /\ loop = 0
  /\ tasks[t].pc = "typing"
  /\ tasks' = [tasks EXCEPT ![t].pc = "asking"]
  /\ loop' = t
  /\ UNCHANGED <<phase, config, user_history, _media_groups, timers, quiet,
                 dispatched, harness>>

\* ask_ai returned a reply (bot.py:115-121, the chunks handed to reply_text)
AskOk(t, raw) ==
  /\ loop = t
  /\ tasks[t].pc = "asking"
  /\ AI_PROVIDER \in KnownProviders
  /\ LET reply == ExtractReply(AI_PROVIDER, ResponseWith(AI_PROVIDER, raw))
     IN /\ user_history' = AppendAssistantTurn(user_history, tasks[t].uid, reply, t)
        /\ tasks' = [tasks EXCEPT ![t].pc = "reply", ![t].result = "ok",
                                  ![t].out = @ \o ReplyMessages(reply)]
  /\ loop' = 0
  /\ UNCHANGED <<phase, config, _media_groups, timers, quiet, dispatched, harness>>

\* ask_ai raised (bot.py:108-113); list.pop() on an empty list raises IndexError
AskFail(t, exc) ==
  /\ loop = t
  /\ tasks[t].pc = "asking"
  /\ LET uid == tasks[t].uid
     IN IF user_history[uid] = <<>>
        THEN /\ tasks' = [tasks EXCEPT ![t].pc = "crashed", ![t].result = "fail"]
             /\ UNCHANGED user_history
        ELSE /\ user_history' = [user_history EXCEPT ![uid] = Front(@)]
             /\ tasks' = [tasks EXCEPT ![t].pc = "reply", ![t].result = "fail",
                                       ![t].out = @ \o ErrorMessages(exc)]
  /\ loop' = 0
  /\ UNCHANGED <<phase, config, _media_groups, timers, quiet, dispatched, harness>>

\* the last awaited reply_text completed and the coroutine returns
Finish(t) ==
  /\ loop = 0
  /\ tasks[t].pc = "reply"
  /\ tasks' = [tasks EXCEPT ![t].pc = "done"]
  /\ UNCHANGED <<phase, config, user_history, _media_groups, timers, loop, quiet,
                 dispatched, harness>>

cmd_clear_all(uid) ==
  /\ MayDispatch
  /\ user_history' = [u \in Users |-> <<>>]
  /\ tasks' = Append(tasks, [NewTask("clear", uid) EXCEPT !.pc = "reply", !.out = <<Message("cleared", <<"cleared">>)>>])
  /\ UNCHANGED <<phase, config, _media_groups, timers, loop, quiet, dispatched, harness>>

cmd_clear(uid) ==
  /\ MayDispatch
  /\ user_history' = [user_history EXCEPT ![uid] = <<>>]
  /\ tasks' = Append(tasks, [NewTask("clear", uid) EXCEPT !.pc = "reply", !.out = <<Message("cleared", <<"cleared">>)>>])
  /\ UNCHANGED <<phase, config, _media_groups, timers, loop, quiet, dispatched, harness>>

\* handle_photo up to the download await (bot.py:188-197, 226); mgid "" is no album
PhotoUpdate(uid, caption, mgid) ==
  /\ tasks' = Append(tasks, [NewTask("photo", uid) EXCEPT !.pc = "download",
                                !.caption = strip(caption), !.mgid = mgid])
  /\ quiet' = IF mgid = "" THEN quiet
              ELSE [quiet EXCEPT ![mgid] =
                      [n |-> @.n + 1, age |-> 0,
                       chained |-> @.chained /\ (@.n = 0 \/ @.age < _MEDIA_GROUP_TIMEOUT)]]
  /\ UNCHANGED <<phase, config, user_history, _media_groups, timers, loop,
                 dispatched, harness>>

handle_photo(uid, caption, mgid) == MayDispatch /\ PhotoUpdate(uid, caption, mgid)

\* bot.py:211-212: a non-empty caption replaces the stored one
GroupCaption_first(old, new) == IF old /= <<>> THEN old ELSE new
GroupCaption(old, new) == IF new /= <<>> THEN new ELSE old

\* the download finished (bot.py:198-223 for an album photo, 227-230 otherwise)
PhotoDownloaded(t) ==
  /\ loop = 0
  /\ tasks[t].kind = "photo" /\ tasks[t].pc = "download"
  /\ LET task == tasks[t]
         g == task.mgid
         part == encode_image_bytes(t, "image/jpeg")
     IN IF g /= ""
        THEN LET grp0 == IF _media_groups[g].present THEN _media_groups[g]
                         ELSE [present |-> TRUE, parts |-> <<>>, caption |-> <<>>,
                               uid |-> task.uid, task |-> 0]
                 grp1 == [grp0 EXCEPT !.parts = Append(@, part),
                                      !.caption = GroupCaption(@, task.caption),
                                      !.task = t]
             IN /\ _media_groups' = [_media_groups EXCEPT ![g] = grp1]
                /\ timers' = {tm \in timers : tm.id /= grp0.task}
                               \cup {[id |-> t, mgid |-> g, rem |-> _MEDIA_GROUP_TIMEOUT]}
                /\ tasks' = [tasks EXCEPT ![t].pc = "done"]
                /\ UNCHANGED user_history
        ELSE /\ EnterSend(task, PartList(<<part,
                   make_text_part(IF task.caption /= <<>> THEN task.caption ELSE DefaultPhotoPrompt)>>), t)
             /\ UNCHANGED <<_media_groups, timers>>
  /\ UNCHANGED <<phase, config, loop, quiet, dispatched, harness>>

\* the call_later callback runs: ensure_future(_flush_media_group(mgid)) (bot.py:218-223)
TimerFire(tm) ==
  /\ loop = 0
  /\ tm \in timers /\ tm.rem = 0
  /\ timers' = timers \ {tm}
  /\ tasks' = Append(tasks, [NewTask("flush", 0) EXCEPT !.mgid = tm.mgid])
  /\ UNCHANGED <<phase, config, user_history, _media_groups, loop, quiet,
                 dispatched, harness>>

_flush_media_group(t) ==
  /\ loop = 0
  /\ tasks[t].kind = "flush" /\ tasks[t].pc = "start"
  /\ LET g == tasks[t].mgid
         group == _media_groups[g]
     IN IF ~group.present
        THEN /\ tasks' = [tasks EXCEPT ![t].pc = "done"]
             /\ UNCHANGED <<user_history, _media_groups, dispatched>>
        ELSE LET caption == IF group.caption /= <<>> THEN group.caption ELSE DefaultGroupPrompt
                 content == PartList(Append(group.parts, make_text_part(caption)))
             IN /\ _media_groups' = [_media_groups EXCEPT ![g] = NoGroup]
                /\ dispatched' = Append(dispatched, [mgid |-> g, content |-> content, by |-> t])
                /\ EnterSend([tasks[t] EXCEPT !.uid = group.uid], content, t)
  /\ UNCHANGED <<phase, config, timers, loop, quiet, harness>>

\* the branch handle_document takes (bot.py:257, 265, 283); pdf_name is
\* doc.file_name.lower().endswith(".pdf")
DocClass_no_reject(doc) ==
  IF doc.mime \in ImageMimes THEN "image" ELSE "pdf"

DocClass(doc) ==
  IF doc.mime \in ImageMimes THEN "image"
  ELSE IF doc.mime = "application/pdf" \/ doc.pdf_name THEN "pdf"
  ELSE "other"

\* handle_document up to the download await (bot.py:247-254)
handle_document(uid, caption, doc) ==
  /\ MayDispatch
  /\ tasks' = Append(tasks, [NewTask("document", uid) EXCEPT !.pc = "download",
                                !.caption = strip(caption), !.doc = doc])
  /\ UNCHANGED <<phase, config, user_history, _media_groups, timers, loop, quiet,
                 dispatched, harness>>

\* the download finished (bot.py:256-266 and 283-288)
DocDownloaded(t) ==
  /\ loop = 0
  /\ tasks[t].kind = "document" /\ tasks[t].pc = "download"
  /\ LET task == tasks[t]
     IN CASE DocClass(task.doc) = "image" ->
               EnterSend(task, PartList(<<encode_image_bytes(t, task.doc.mime),
                   make_text_part(IF task.caption /= <<>> THEN task.caption ELSE DefaultPhotoPrompt)>>), t)
          [] DocClass(task.doc) = "pdf" ->
               /\ tasks' = [tasks EXCEPT ![t].pc = "pdf_typing"]
               /\ UNCHANGED user_history
          [] DocClass(task.doc) = "other" ->
               /\ tasks' = [tasks EXCEPT ![t].pc = "reply", ![t].out = Append(@, Message("unsupported", <<"unsupported">>))]
               /\ UNCHANGED user_history
  /\ UNCHANGED <<phase, config, _media_groups, timers, loop, quiet, dispatched, harness>>

PdfExtracted_always_ask(t, pdf_text) ==
  /\ loop = 0
  /\ tasks[t].pc = "pdf_typing"
  /\ EnterSend(tasks[t], PartList(<<make_pdf_part(pdf_text), make_text_part(tasks[t].caption)>>), t)
  /\ UNCHANGED <<phase, config, _media_groups, timers, loop, quiet, dispatched, harness>>

\* after the typing action: extract the text, then ask or store (bot.py:267-281)
PdfExtracted(t, pdf_text) ==
  /\ loop = 0
  /\ tasks[t].pc = "pdf_typing"
  /\ LET task == tasks[t]
     IN IF task.caption /= <<>>
        THEN EnterSend(task, PartList(<<make_pdf_part(pdf_text), make_text_part(task.caption)>>), t)
        ELSE /\ user_history' = AppendUserTurn(user_history, task.uid,
                                               PartList(<<make_pdf_part(pdf_text)>>), t)
             /\ tasks' = [tasks EXCEPT ![t].pc = "reply", ![t].out = Append(@, Message("stored", <<"stored">>))]
  /\ UNCHANGED <<phase, config, _media_groups, timers, loop, quiet, dispatched, harness>>

\* one tick of wall-clock time passes
Tick ==
  /\ phase = "running"
  /\ timers' = {[tm EXCEPT !.rem = Max(@ - 1, 0)] : tm \in timers}
  /\ quiet' = [g \in Groups |-> [quiet[g] EXCEPT !.age = Min(@ + 1, _MEDIA_GROUP_TIMEOUT)]]
  /\ timers' /= timers \/ quiet' /= quiet
  /\ UNCHANGED <<phase, config, user_history, _media_groups, tasks, loop,
                 dispatched, harness>>

Next ==
  \/ main
  \/ \E u \in Users, x \in Texts : handle_text(u, x)
  \/ \E u \in Users : cmd_clear(u)
  \/ \E u \in Users, c \in Captions, g \in Groups \cup {""} : handle_photo(u, c, g)
  \/ \E u \in Users, c \in Captions, d \in Documents : handle_document(u, c, d)
  \/ \E t \in TaskIds : PhotoDownloaded(t)
  \/ \E t \in TaskIds : DocDownloaded(t)
  \/ \E t \in TaskIds, x \in PdfTexts : PdfExtracted(t, x)
  \/ \E tm \in timers : TimerFire(tm)
  \/ \E t \in TaskIds : _flush_media_group(t)
  \/ \E t \in TaskIds : AskStart(t)
  \/ \E t \in TaskIds, r \in RawReplies : AskOk(t, r)
  \/ \E t \in TaskIds, e \in ErrorTexts : AskFail(t, e)
  \/ \E t \in TaskIds : Finish(t)
  \/ Tick

Spec == Init /\ [][Next]_vars

\* the same program with update handlers dispatched as concurrent tasks
InitConcurrent ==
  /\ phase = "boot"
  /\ TELEGRAM_BOT_TOKEN = "tok"
  /\ AI_API_KEY = "key"
  /\ AI_PROVIDER \in {"openrouter", "bogus"}
  /\ MAX_HISTORY \in 0..MaxMaxHistory
  /\ concurrent_updates = TRUE
  /\ Idle
  /\ fx = <<>> /\ fy = <<>>

SpecConcurrent == InitConcurrent /\ [][Next]_vars

\* one user sends the photos of one album; the configuration is valid
AlbumOwner == 1
AlbumCaptions == {<<>>, <<" ">>, <<"c">>, <<"d">>}

InitAlbum ==
  /\ phase = "running"
  /\ TELEGRAM_BOT_TOKEN = "tok"
  /\ AI_API_KEY = "key"
  /\ AI_PROVIDER = "openrouter"
  /\ MAX_HISTORY = 1
  /\ concurrent_updates = FALSE
  /\ Idle
  /\ fx = <<>> /\ fy = <<>>

AlbumPhoto(caption) ==
  /\ MayDispatchUpTo(MaxAlbumPhotos)
  /\ PhotoUpdate(AlbumOwner, caption, "g1")

NextAlbum ==
  \/ \E c \in AlbumCaptions : AlbumPhoto(c)
  \/ \E t \in TaskIds : PhotoDownloaded(t)
  \/ \E tm \in timers : TimerFire(tm)
  \/ \E t \in TaskIds : _flush_media_group(t)
  \/ \E t \in TaskIds : AskStart(t)
  \/ \E t \in TaskIds, r \in RawReplies : AskOk(t, r)
  \/ \E t \in TaskIds, e \in ErrorTexts : AskFail(t, e)
  \/ \E t \in TaskIds : Finish(t)
  \/ Tick

SpecAlbum == InitAlbum /\ [][NextAlbum]_vars

\* ---- function harnesses --------------------------------------------------
HarnessConfig ==
  /\ TELEGRAM_BOT_TOKEN = "tok"
  /\ AI_API_KEY = "key"
  /\ AI_PROVIDER = "openrouter"
  /\ concurrent_updates = FALSE

Pending == [done |-> FALSE, value |-> <<>>]
program == <<phase, config, user_history, _media_groups, timers, tasks, loop,
             quiet, dispatched>>

\* _split applied to every short text and chunk size
InitSplit ==
  /\ phase = "split"
  /\ HarnessConfig /\ MAX_HISTORY = 1 /\ Idle
  /\ fx \in [text : StringsUpTo({"a", "b"}, MaxLen), size : 1..MaxSize]
  /\ fy = Pending

ApplySplit ==
  /\ phase = "split" /\ ~fy.done
  /\ fy' = [done |-> TRUE, value |-> _split(fx.text, fx.size)]
  /\ UNCHANGED <<program, fx>>

SpecSplit == InitSplit /\ [][ApplySplit]_vars

\* each adapter's reply extraction applied to a response carrying a given text
InitAdapter ==
  /\ phase = "adapter"
  /\ HarnessConfig /\ MAX_HISTORY = 1 /\ Idle
  /\ fx \in [provider : KnownProviders, text : StringsUpTo({"a", " ", "\n"}, MaxStr)]
  /\ fy = Pending

ApplyExtract ==
  /\ phase = "adapter" /\ ~fy.done
  /\ fy' = [done |-> TRUE, value |-> ExtractReply(fx.provider, ResponseWith(fx.provider, fx.text))]
  /\ UNCHANGED <<program, fx>>

SpecAdapter == InitAdapter /\ [][ApplyExtract]_vars

\* appends and trims alone, user and assistant turns strictly alternating,
\* starting from an empty history; fx counts the appends and the turns the
\* last trim removed
InitTrim ==
  /\ phase = "trim"
  /\ HarnessConfig /\ MAX_HISTORY \in 0..(MaxMaxHistory + 1) /\ Idle
  /\ fx = [appends |-> 0, removed |-> 0]
  /\ fy = Pending

TrimAfterUser(uid, text) ==
  /\ phase = "trim" /\ fx.appends < MaxAppends
  /\ IF user_history[uid] = <<>> THEN TRUE ELSE Last(user_history[uid]).role = "assistant"
  /\ user_history' = AppendUserTurn(user_history, uid, PlainText(text), 0)
  /\ fx' = [appends |-> fx.appends + 1,
            removed |-> Len(user_history[uid]) + 1 - Len(user_history'[uid])]
  /\ UNCHANGED <<phase, config, _media_groups, timers, tasks, loop, quiet, dispatched, fy>>

TrimAfterAssistant(uid, reply) ==
  /\ phase = "trim" /\ fx.appends < MaxAppends
  /\ IF user_history[uid] = <<>> THEN FALSE ELSE Last(user_history[uid]).role = "user"
  /\ user_history' = AppendAssistantTurn(user_history, uid, reply, 0)
  /\ fx' = [appends |-> fx.appends + 1,
            removed |-> Len(user_history[uid]) + 1 - Len(user_history'[uid])]
  /\ UNCHANGED <<phase, config, _media_groups, timers, tasks, loop, quiet, dispatched, fy>>

NextTrim ==
  \/ \E x \in {<<"h">>, <<"i">>} : TrimAfterUser(1, x)
  \/ \E r \in {<<"r">>, <<"s">>} : TrimAfterAssistant(1, r)

SpecTrim == InitTrim /\ [][NextTrim]_vars

\* the slice of _trim_history applied to any list, whatever produced it
InitTrimAny ==
  /\ phase = "trim_any"
  /\ HarnessConfig /\ MAX_HISTORY = 1 /\ Idle
  /\ fx \in [hist : StringsUpTo({"user", "assistant"}, MaxAppends),
              max_history : 1..(MaxMaxHistory + 1)]
  /\ fy = Pending

ApplyTrim ==
  /\ phase = "trim_any" /\ ~fy.done
  /\ fy' = [done |-> TRUE, value |-> trim(fx.hist, fx.max_history)]
  /\ UNCHANGED <<program, fx>>

SpecTrimAny == InitTrimAny /\ [][ApplyTrim]_vars

\* _strip_markdown applied to every short text without markup characters
InitMarkdown ==
  /\ phase = "markdown"
  /\ HarnessConfig /\ MAX_HISTORY = 1 /\ Idle
  /\ fx \in [text : StringsUpTo({"a", " ", "\n"}, MaxReply)]
  /\ fy = Pending

ApplyStripMarkdown ==
  /\ phase = "markdown" /\ ~fy.done
  /\ fy' = [done |-> TRUE, value |-> _strip_markdown(fx.text)]
  /\ UNCHANGED <<program, fx>>

SpecMarkdown == InitMarkdown /\ [][ApplyStripMarkdown]_vars

\* ---- properties ----------------------------------------------------------
\* the step in which ask_ai raises inside task t
FailStep(t) ==
  /\ tasks[t].pc = "asking"
  /\ tasks'[t].result = "fail"

\* nothing but task t has touched its user's history since t appended its turn
Undisturbed(t) ==
  LET h == user_history[tasks[t].uid]
  IN IF h = <<>> THEN FALSE
     ELSE Last(h).by = t /\ h = trim(Append(tasks[t].pre, Last(h)), MAX_HISTORY)

\* C1: when the provider call of a turn-send fails and no other task touched
\* the user's history, the history after the call is the history before it.
C1_FailureRollback ==
  [][\A t \in TaskIds : FailStep(t) /\ Undisturbed(t)
        => user_history'[tasks[t].uid] = tasks[t].pre]_vars

\* C2: with strictly alternating appends from an empty history, every trim
\* removes an even number of turns and a non-empty history never starts on an
\* assistant turn.
C2_TrimWholePairs ==
  phase = "trim" =>
    /\ fx.removed % 2 = 0
    /\ \A u \in Users : user_history[u] /= <<>> => Head(user_history[u]).role /= "assistant"

\* C3: for every accepted MAX_HISTORY >= 0, every history holds at most
\* 2*MAX_HISTORY turns whenever a handler is suspended or has finished.
C3_HistoryBound ==
  phase = "running" => \A u \in Users : Len(user_history[u]) <= 2 * MAX_HISTORY

\* C4: photos of one album, each arriving within the quiet period of the
\* previous one, are dispatched as exactly one turn: all images in arrival
\* order, then one text part.
AlbumPhotos(g) == {t \in TaskIds : tasks[t].kind = "photo" /\ tasks[t].mgid = g}
AlbumTurns(g) == SelectSeq(dispatched, LAMBDA d : d.mgid = g)
AlbumSettled(g) ==
  /\ quiet[g].age = _MEDIA_GROUP_TIMEOUT
  /\ \A t \in AlbumPhotos(g) : tasks[t].pc = "done"
  /\ ~_media_groups[g].present
  /\ \A tm \in timers : tm.mgid /= g
  /\ \A t \in TaskIds : tasks[t].kind = "flush" /\ tasks[t].mgid = g => tasks[t].pc /= "start"
ImagesInArrivalOrder(parts, g) ==
  /\ Len(parts) = Cardinality(AlbumPhotos(g)) + 1
  /\ \A i \in 1..(Len(parts) - 1) :
       /\ parts[i].type = "image_b64"
       /\ parts[i].data \in AlbumPhotos(g)
       /\ i > 1 => parts[i - 1].data < parts[i].data
  /\ Last(parts).type = "text"

C4_OneTurnPerAlbum ==
  \A g \in Groups :
    quiet[g].chained /\ quiet[g].n >= 1 =>
      /\ Len(AlbumTurns(g)) <= 1
      /\ AlbumSettled(g) =>
           /\ Len(AlbumTurns(g)) = 1
           /\ ImagesInArrivalOrder(AlbumTurns(g)[1].content.parts, g)

\* C5: when a task's provider call fails, the turn removed from the history is
\* the user turn this task appended, and no other task's turn is removed.
C5_RollbackOwnTurn ==
  [][\A t \in TaskIds : FailStep(t) =>
        user_history'[tasks[t].uid]
          = SelectSeq(user_history[tasks[t].uid], LAMBDA x : x.by /= t)]_vars

\* C6: with a provider selector that is none of the four known identifiers the
\* process never accepts messages, and no user is sent a per-call error.
C6_UnknownProviderFatal ==
  AI_PROVIDER \notin KnownProviders =>
    /\ phase /= "running"
    /\ \A t \in TaskIds : tasks[t].result /= "fail"

\* C7 as stated: the extracted reply is the text the response carried.
C7_ReplyUnchanged ==
  phase = "adapter" /\ fy.done => fy.value = fx.text

\* C7 amended: the extracted reply is the carried text without its leading and
\* trailing whitespace, and is the text itself when it has none.
OnlyWhitespace(s) == \A i \in 1..Len(s) : s[i] \in Whitespace
C7_ReplyStripped ==
  phase = "adapter" /\ fy.done =>
    /\ fy.value /= <<>> => Head(fy.value) \notin Whitespace /\ Last(fy.value) \notin Whitespace
    /\ \E i \in 0..Len(fx.text) :
         /\ i + Len(fy.value) <= Len(fx.text)
         /\ fy.value = SubSeq(fx.text, i + 1, i + Len(fy.value))
         /\ OnlyWhitespace(SubSeq(fx.text, 1, i))
         /\ OnlyWhitespace(SubSeq(fx.text, i + Len(fy.value) + 1, Len(fx.text)))

C7_Witness ==
  /\ phase = "adapter" /\ fy.done
  /\ Len(fx.text) = 3 /\ fx.text[1] = "\n" /\ fx.text[2] = "a" /\ fx.text[3] = " "
  /\ fx.provider = "gemini"
  /\ fy.value = <<"a">>

\* C8: _split returns ceil(max(L,1)/S) chunks, all of length S except possibly
\* the last, which is at most S; the chunks concatenate to the text; an empty
\* text gives exactly one empty chunk.
C8_Chunking ==
  phase = "split" /\ fy.done =>
    LET L == Len(fx.text)
        S == fx.size
        chunks == fy.value
        n == Len(chunks)
    IN /\ n = (Max(L, 1) + S - 1) \div S
       /\ \A i \in 1..(n - 1) : Len(chunks[i]) = S
       /\ n >= 1 => Len(chunks[n]) <= S
       /\ Flatten(chunks) = fx.text
       /\ L = 0 => chunks = << <<>> >>

C8_Witness ==
  /\ phase = "split" /\ fy.done
  /\ Len(fx.text) = 4 /\ fx.size = 3
  /\ Len(fy.value) = 2 /\ Len(fy.value[2]) = 1

\* C9: every failed provider call ends with exactly one error message sent and
\* the handler returning normally; no exception escapes the rollback.
C9_OneErrorMessage ==
  \A t \in TaskIds :
    tasks[t].result = "fail" =>
      /\ tasks[t].pc /= "crashed"
      /\ Len(SelectSeq(tasks[t].out, LAMBDA m : m.kind = "error")) = 1

\* C10: while a provider request is outstanding, suspended tasks of other
\* users can resume and due flush timers can fire.
Resume(t) ==
  \/ PhotoDownloaded(t)
  \/ DocDownloaded(t)
  \/ \E x \in PdfTexts : PdfExtracted(t, x)
  \/ _flush_media_group(t)
  \/ AskStart(t)
  \/ Finish(t)
Suspended(t) == tasks[t].pc \in {"start", "download", "pdf_typing", "typing", "reply"}

C10_ProviderCallNonBlocking ==
  \A t \in TaskIds :
    tasks[t].pc = "asking" =>
      /\ \A tm \in timers : tm.rem = 0 => ENABLED TimerFire(tm)
      /\ \A o \in TaskIds : Suspended(o) /\ tasks[o].uid /= tasks[t].uid => ENABLED Resume(o)

\* the task that takes the step: the one created or changed by it
Acting(t) == t > Len(tasks) \/ tasks'[t] /= tasks[t]

\* C11: a document whose MIME type is neither image/* nor application/pdf and
\* whose file name does not end in .pdf gets one 'unsupported file type'
\* message, no provider call, and no change to any history or to the
\* media-group table.
Unsupported(doc) ==
  doc.mime \notin ImageMimes /\ doc.mime /= "application/pdf" /\ ~doc.pdf_name

C11_UnsupportedDocument ==
  [][\A t \in 1..Len(tasks') :
       Acting(t) /\ tasks'[t].kind = "document" /\ Unsupported(tasks'[t].doc) =>
         /\ user_history' = user_history
         /\ _media_groups' = _media_groups
         /\ loop' = loop
         /\ tasks'[t].result = ""
         /\ tasks'[t].pc \in {"download", "reply", "done"}
         /\ tasks'[t].out = IF tasks'[t].pc = "download" THEN <<>>
                            ELSE <<Message("unsupported", <<"unsupported">>)>>]_vars

C11_Witness ==
  \E t \in TaskIds :
    /\ tasks[t].kind = "document" /\ Unsupported(tasks[t].doc)
    /\ tasks[t].pc = "done"
    /\ tasks[t].out = <<Message("unsupported", <<"unsupported">>)>>

\* C12: a PDF without caption appends exactly one user turn holding the single
\* PdfText part, trims, calls no provider, appends no assistant turn and sends
\* only the 'stored as context' acknowledgment.
PdfDocument(doc) ==
  doc.mime \notin ImageMimes /\ (doc.mime = "application/pdf" \/ doc.pdf_name)
StoredAck == Message("stored", <<"stored">>)

C12_PdfWithoutCaption ==
  [][\A t \in 1..Len(tasks') :
       Acting(t) /\ tasks'[t].kind = "document" /\ PdfDocument(tasks'[t].doc)
         /\ tasks'[t].caption = <<>> =>
         LET uid == tasks'[t].uid
             stores == t <= Len(tasks) /\ tasks[t].pc = "pdf_typing"
         IN /\ loop' = loop
            /\ tasks'[t].result = ""
            /\ tasks'[t].pc \in {"download", "pdf_typing", "reply", "done"}
            /\ \A u \in Users \ {uid} : user_history'[u] = user_history[u]
            /\ IF stores
               THEN /\ \E x \in PdfTexts :
                         user_history'[uid] =
                           trim(Append(user_history[uid],
                                       Turn("user", PartList(<<make_pdf_part(x)>>), t)),
                                MAX_HISTORY)
                    /\ tasks'[t].out = <<StoredAck>>
               ELSE /\ user_history'[uid] = user_history[uid]
                    /\ tasks'[t].out = IF tasks'[t].pc = "done" THEN <<StoredAck>> ELSE <<>>]_vars

C12_Witness ==
  \E t \in TaskIds :
    /\ tasks[t].kind = "document" /\ PdfDocument(tasks[t].doc) /\ tasks[t].caption = <<>>
    /\ tasks[t].pc = "done" /\ tasks[t].out = <<StoredAck>>
    /\ MAX_HISTORY = 1
    /\ Len(user_history[tasks[t].uid]) = 2
    /\ Last(user_history[tasks[t].uid]).by = t
    /\ Last(user_history[tasks[t].uid]).content.parts[1].type = "pdf_text"

\* the three serializers applied to every short history
SampleParts == {make_text_part(<<"q">>), encode_image_bytes(7, "image/png"),
                make_pdf_part(<<"t">>)}
SampleContents ==
  {PlainText(<<"h">>)}
    \cup {PartList(ps) : ps \in UNION {[1..k -> SampleParts] : k \in 1..MaxParts}}
SampleTurns == {Turn(r, c, 0) : r \in {"user", "assistant"}, c \in SampleContents}

InitSerialize ==
  /\ phase = "serialize"
  /\ HarnessConfig /\ MAX_HISTORY = 1 /\ Idle
  /\ fx \in [history : StringsUpTo(SampleTurns, MaxTurns)]
  /\ fy = Pending

ApplySerialize ==
  /\ phase = "serialize" /\ ~fy.done
  /\ fy' = [done |-> TRUE,
            value |-> [openai |-> _build_openai_messages(fx.history),
                       gemini |-> _build_gemini_contents(fx.history),
                       anthropic |-> _build_anthropic_messages(fx.history)]]
  /\ UNCHANGED <<program, fx>>

SpecSerialize == InitSerialize /\ [][ApplySerialize]_vars

\* C13: each serializer gives one message per turn in order, maps the roles
\* (Assistant is "model" for Gemini), and gives one wire part per internal
\* part of a multimodal turn, in order and of the matching wire shape.
OpenAIShape(w, part) ==
  CASE part.type = "text" -> w = [type |-> "text", text |-> part.text]
    [] part.type = "image_b64" ->
         w.type = "image_url" /\ w.image_url.url = <<"data:", part.mime, ";base64,", part.data>>
    [] part.type = "pdf_text" -> w.type = "text" /\ w.text = PdfPrefix \o part.text
GeminiShape(w, part) ==
  CASE part.type = "text" -> DOMAIN w = {"text"} /\ w.text = part.text
    [] part.type = "image_b64" ->
         DOMAIN w = {"inlineData"} /\ w.inlineData = [mimeType |-> part.mime, data |-> part.data]
    [] part.type = "pdf_text" -> DOMAIN w = {"text"} /\ w.text = PdfPrefix \o part.text
AnthropicShape(w, part) ==
  CASE part.type = "text" -> w = [type |-> "text", text |-> part.text]
    [] part.type = "image_b64" ->
         w.type = "image" /\ w.source = [type |-> "base64", media_type |-> part.mime, data |-> part.data]
    [] part.type = "pdf_text" -> w.type = "text" /\ w.text = PdfPrefix \o part.text

C13_StructurePreserved ==
  phase = "serialize" /\ fy.done =>
    LET h == fx.history
        o == fy.value.openai
        g == fy.value.gemini
        a == fy.value.anthropic
    IN /\ Len(o) = Len(h) /\ Len(g) = Len(h) /\ Len(a) = Len(h)
       /\ \A i \in 1..Len(h) :
            LET c == h[i].content
            IN /\ o[i].role = (IF h[i].role = "user" THEN "user" ELSE "assistant")
               /\ a[i].role = (IF h[i].role = "user" THEN "user" ELSE "assistant")
               /\ g[i].role = (IF h[i].role = "user" THEN "user" ELSE "model")
               /\ IF c.plain
                  THEN /\ o[i].content = c.text
                       /\ a[i].content = c.text
                       /\ g[i].parts = <<[text |-> c.text]>>
                  ELSE /\ Len(o[i].content) = Len(c.parts)
                       /\ Len(a[i].content) = Len(c.parts)
                       /\ Len(g[i].parts) = Len(c.parts)
                       /\ \A j \in 1..Len(c.parts) :
                            /\ OpenAIShape(o[i].content[j], c.parts[j])
                            /\ AnthropicShape(a[i].content[j], c.parts[j])
                            /\ GeminiShape(g[i].parts[j], c.parts[j])

C13_Witness ==
  /\ phase = "serialize" /\ fy.done
  /\ Len(fx.history) = 2
  /\ fx.history[1].role = "user" /\ ~fx.history[1].content.plain
  /\ Len(fx.history[1].content.parts) = 2
  /\ fx.history[1].content.parts[1].type = "image_b64"
  /\ fx.history[1].content.parts[2].type = "pdf_text"
  /\ fx.history[2].role = "assistant" /\ fx.history[2].content.plain
  /\ fy.value.gemini[2].role = "model"
  /\ Len(fy.value.gemini[1].parts) = 2

\* the messages of _send_ai_reply for a reply or an exception text of any size
Repeat(n) == [i \in 1..n |-> "a"]
LongLens == {TelegramLimit - Len(ErrorPrefix), TelegramLimit - Len(ErrorPrefix) + 1,
             TelegramLimit, TelegramLimit + 1}
ProviderTexts == StringsUpTo({"a", "\n"}, MaxLen) \cup {Repeat(n) : n \in LongLens}

InitOutbound ==
  /\ phase = "outbound"
  /\ HarnessConfig /\ MAX_HISTORY = 1 /\ Idle
  /\ fx \in [outcome : {"reply", "exception"}, text : ProviderTexts]
  /\ fy = Pending

ApplyOutbound ==
  /\ phase = "outbound" /\ ~fy.done
  /\ fy' = [done |-> TRUE,
            value |-> IF fx.outcome = "reply" THEN ReplyMessages(fx.text)
                      ELSE ErrorMessages(fx.text)]
  /\ UNCHANGED <<program, fx>>

SpecOutbound == InitOutbound /\ [][ApplyOutbound]_vars

\* C14: every message _send_ai_reply sends, for a reply and for a provider
\* exception alike, is at most 4096 long.
C14_OutboundSize ==
  phase = "outbound" /\ fy.done =>
    \A i \in 1..Len(fy.value) : Len(fy.value[i].text) <= TelegramLimit

\* C15: an album id never has two live flush timers, no flush dispatches a
\* turn without an image, and no image is dispatched in two turns.
LiveTimers(g) == {tm \in timers : tm.mgid = g}
ImagesOf(content) == {content.parts[i].data : i \in {j \in 1..Len(content.parts) :
                                               content.parts[j].type = "image_b64"}}
C15_ExactlyOnceFlush ==
  /\ \A g \in Groups : Cardinality(LiveTimers(g)) <= 1
  /\ \A i \in 1..Len(dispatched) : ImagesOf(dispatched[i].content) /= {}
  /\ \A i, j \in 1..Len(dispatched) :
       i /= j => ImagesOf(dispatched[i].content) \cap ImagesOf(dispatched[j].content) = {}

\* C16: the trailing text part of a flushed album is the caption of the last
\* image of the batch whose stripped caption is not empty, whatever captionless
\* images follow it, and the default prompt when no image had one; the stored
\* caption of a pending batch follows the same rule.
Captioned(images) == {j \in 1..Len(images) : tasks[images[j].data].caption /= <<>>}
LastCaption(images, default) ==
  IF Captioned(images) = {} THEN default
  ELSE tasks[images[CHOOSE j \in Captioned(images) : \A k \in Captioned(images) : k <= j].data].caption

C16_LastCaptionWins ==
  /\ \A g \in Groups :
       _media_groups[g].present =>
         _media_groups[g].caption = LastCaption(_media_groups[g].parts, <<>>)
  /\ \A i \in 1..Len(dispatched) :
       LET parts == dispatched[i].content.parts
       IN Last(parts) = make_text_part(LastCaption(Front(parts), DefaultGroupPrompt))

C16_Witness ==
  \E i \in 1..Len(dispatched) :
    LET parts == dispatched[i].content.parts
    IN /\ Len(parts) = 4
       /\ tasks[parts[1].data].caption = <<"c">>
       /\ tasks[parts[2].data].caption = <<"d">>
       /\ tasks[parts[3].data].caption = <<>>
       /\ Last(parts).text = <<"d">>

\* C17: for MAX_HISTORY >= 1, trim of N turns is the last min(N, 2*MAX_HISTORY)
\* turns in their order, and the input itself when N <= 2*MAX_HISTORY.
C17_TrimResult ==
  phase = "trim_any" /\ fy.done /\ fx.max_history >= 1 =>
    LET N == Len(fx.hist)
        k == Min(N, 2 * fx.max_history)
    IN /\ Len(fy.value) = k
       /\ \A i \in 1..k : fy.value[i] = fx.hist[N - k + i]
       /\ N <= 2 * fx.max_history => fy.value = fx.hist

C17_Witness ==
  /\ phase = "trim_any" /\ fy.done
  /\ fx.max_history = 1 /\ Len(fx.hist) = 5
  /\ fx.hist[4] = "assistant" /\ fx.hist[5] = "user"
  /\ fy.value = <<"assistant", "user">>

\* C18: when the provider call of an undisturbed turn-send succeeds, the
\* history ends with the task's user turn followed by one assistant turn that
\* holds the reply the adapter returned, and the messages sent concatenate to
\* that reply with its markdown stripped.
OkStep(t) ==
  /\ tasks[t].pc = "asking"
  /\ tasks'[t].result = "ok"

SentText(t) == Flatten([i \in 1..Len(tasks'[t].out) |-> tasks'[t].out[i].text])

C18_SuccessPath ==
  [][\A t \in TaskIds : OkStep(t) /\ Undisturbed(t) =>
        LET before == user_history[tasks[t].uid]
            after == user_history'[tasks[t].uid]
            n == Len(after)
        IN /\ n >= 2
           /\ after[n - 1] = Last(before)
           /\ after[n - 1].role = "user" /\ after[n - 1].by = t
           /\ after[n].role = "assistant"
           /\ \E r \in RawReplies :
                /\ after[n].content = PlainText(strip(r))
                /\ SentText(t) = _strip_markdown(strip(r))
           /\ \A i \in 1..Len(tasks'[t].out) : tasks'[t].out[i].kind = "reply"]_vars

C18_Witness ==
  \E t \in TaskIds :
    /\ tasks[t].result = "ok"
    /\ LET h == user_history[tasks[t].uid]
       IN /\ Len(h) = Len(tasks[t].pre) + 2
          /\ h[Len(h) - 1].by = t /\ h[Len(h) - 1].role = "user"
          /\ h[Len(h)].by = t /\ h[Len(h)].role = "assistant"
          /\ h[Len(h)].content.text = <<"r", "\n", "\n", "\n", "s">>
    /\ tasks[t].out = <<Message("reply", <<"r", "\n", "\n", "s">>)>>

\* C19: every provider call receives a non-empty history whose last turn is
\* the user turn the calling task appended.
CallStep(t) ==
  /\ tasks[t].pc = "typing"
  /\ tasks'[t].pc = "asking"

C19_ProviderCallInput ==
  [][\A t \in TaskIds : CallStep(t) =>
        LET h == user_history[tasks[t].uid]
        IN IF h = <<>> THEN FALSE
           ELSE Last(h).role = "user" /\ Last(h).by = t]_vars

\* C20: a step taken by a task of user A (a handler, a turn-send that succeeds
\* or fails, the flush of A's album) leaves every other user's history as it was.
C20_CrossUserIsolation ==
  [][\A t \in 1..Len(tasks') :
        Acting(t) => \A B \in Users \ {tasks'[t].uid} : user_history'[B] = user_history[B]]_vars

C20_Witness ==
  \E t \in TaskIds, B \in Users :
    /\ tasks[t].kind = "clear" /\ tasks[t].pc = "done"
    /\ B /= tasks[t].uid
    /\ user_history[tasks[t].uid] = <<>>
    /\ Len(user_history[B]) = 2
    /\ \A i \in 1..2 : user_history[B][i].by < t

\* C21: the stripped text has every run of three or more blank lines replaced
\* by two blank lines, shorter runs as they were, and no leading or trailing
\* whitespace. k blank lines in a row are k + 1 consecutive newlines, so of
\* every run of newlines the first three stay.
KeptByBlankLines(s, i) ==
  ~(i >= 4 /\ s[i] = "\n" /\ s[i - 1] = "\n" /\ s[i - 2] = "\n" /\ s[i - 3] = "\n")

CollapseBlankLines(s) ==
  LET kept == SelectSeq([i \in 1..Len(s) |-> i], LAMBDA i : KeptByBlankLines(s, i))
  IN [j \in 1..Len(kept) |-> s[kept[j]]]

C21_BlankLineCollapse ==
  phase = "markdown" /\ fy.done =>
    /\ fy.value = strip(CollapseBlankLines(fx.text))
    /\ fy.value /= <<>> => Head(fy.value) \notin Whitespace /\ Last(fy.value) \notin Whitespace
====
